---- MODULE Spec2Model ----
(***************************************************************************)
(* Model of the market-data engine of commodity-tracker                    *)
(* (src/backend/src/services/massiveApi.ts): the in-memory result cache,   *)
(* the fetcher with its timeout, and the per-ticker quote assembler with   *)
(* its three concurrent sub-fetches.                                       *)
(*                                                                         *)
(* JavaScript runs every handler to completion, so one action is one       *)
(* macrotask: the synchronous prefix of a call together with the           *)
(* microtask continuations it releases.  Time is a discrete clock; a timer *)
(* that is armed fires no later than the tick of its deadline.             *)
(***************************************************************************)
EXTENDS Integers, Sequences, FiniteSets, TLC

VARIABLES
    now,      \* Date.now(), in clock ticks
    apiKey,   \* process.env.MASSIVE_API_KEY is set
    cache,    \* the Map `cache`, in insertion order: <<[key, data, expiry], ...>>
    call,     \* call[c]: one invocation of a function of the service
    req,      \* req[c][f]: the fetchWithRetry of facet f of call c
    batch,    \* the invocation of getMultipleAssetQuotes, whose lookups are
              \* the calls 1..Len(batch.tickers)
    table,    \* the rows of prisma.asset, by createdAt: the tickers
    http,     \* http[s]: the handler of the assets router serving request s
    hook      \* the state of useAssetData in the browser

\* the watchlist: its store, its routes and the hook that displays it
watch == <<table, http, hook>>

vars == <<now, apiKey, cache, call, req, batch, watch>>

----------------------------------------------------------------------------
(* Bounds of the model.  MAX_CACHE_SIZE, CACHE_TTL and API_TIMEOUT carry    *)
(* the source's names; the source sets them to 100 entries, 60000 ms and   *)
(* 10000 ms, and the model scales them to a few entries and clock ticks.   *)

MAX_CACHE_SIZE == 3
CACHE_TTL == 2
API_TIMEOUT == 1
MaxClock == 3
\* the longest run of one character in a ticker handed to sanitizeTicker
MaxRun == 22
\* the longest series of daily bars handed to calculateSMA and calculateRSI
MaxBars == 22

\* the call slots: at most two calls of the facade are in progress at a time
Calls == {1, 2}
\* the sub-fetches of getAssetQuote, in the order of its Promise.all;
\* searchAssets issues one fetch, held in slot 1
Facets == <<"snapshot", "details", "bars">>
FacetIds == 1..3

----------------------------------------------------------------------------
(* JavaScript values that occur in upstream payloads.                      *)

Undef == [t |-> "undefined", n |-> 0]
Num(n) == [t |-> "number", n |-> n]
Str == [t |-> "string", n |-> 0]      \* a non-empty, non-numeric string

Truthy(v) == (v.t = "number" /\ v.n # 0) \/ v.t = "string"

\* JS null: the parsed body `null`, and the absent result of every function.
Null == [kind |-> "null"]

TruthyData(d) == d.kind # "null"

\* the completion of a function body that threw
Thrown == [kind |-> "thrown"]

\* catchNull without the catch block: what the body threw leaves the function
catchNullRethrow(v) == v

\* the catch block of getAssetQuote: log, return null
catchNull(v) == IF v = Thrown THEN Null ELSE v

Snap(day, prev) == [kind |-> "snapshot", hasTicker |-> TRUE, dayC |-> day, prevC |-> prev]
SnapNoTicker == [kind |-> "snapshot", hasTicker |-> FALSE, dayC |-> Undef, prevC |-> Undef]
Details(name) == [kind |-> "details", hasResults |-> TRUE, name |-> name]
DetailsNoResults == [kind |-> "details", hasResults |-> FALSE, name |-> <<>>]
Bars(closes) == [kind |-> "bars", results |-> closes]
SearchBody(items) == [kind |-> "search", results |-> items]
Item(ticker, name, type, market) ==
    [obj |-> TRUE, ticker |-> ticker, name |-> name, type |-> type, market |-> market]
\* the JSON value null where an item is expected
NullItem == [obj |-> FALSE, ticker |-> <<>>, name |-> <<>>, type |-> <<>>, market |-> <<>>]

----------------------------------------------------------------------------
(* Strings are sequences of one-character strings.                         *)

LowerLetters == <<"a","b","c","d","e","f","g","h","i","j","k","l","m",
                  "n","o","p","q","r","s","t","u","v","w","x","y","z">>
UpperLetters == <<"A","B","C","D","E","F","G","H","I","J","K","L","M",
                  "N","O","P","Q","R","S","T","U","V","W","X","Y","Z">>
Digits == {"0","1","2","3","4","5","6","7","8","9"}

Range(s) == {s[i] : i \in DOMAIN s}

\* the character class [A-Za-z0-9.\-:^] of sanitizeTicker's regular expression
TickerChars == Range(LowerLetters) \cup Range(UpperLetters) \cup Digits
                 \cup {".", "-", ":", "^"}

toUpperCase(ch) ==
    IF \E i \in DOMAIN LowerLetters : LowerLetters[i] = ch
    THEN UpperLetters[CHOOSE i \in DOMAIN LowerLetters : LowerLetters[i] = ch]
    ELSE ch

TickerMaxLen == 20

substring(s, n) == IF Len(s) <= n THEN s ELSE SubSeq(s, 1, n)

\* sanitizeTicker whose replace lacks the g flag: only the first character
\* outside the class is removed
sanitizeTickerFirstOnly(ticker) ==
    LET bad == {i \in DOMAIN ticker : ticker[i] \notin TickerChars}
        first == IF bad = {} THEN 0 ELSE CHOOSE i \in bad : \A j \in bad : i <= j
        kept == IF first = 0 THEN ticker
                ELSE SubSeq(ticker, 1, first - 1) \o SubSeq(ticker, first + 1, Len(ticker))
        cut == substring(kept, TickerMaxLen)
    IN  [i \in DOMAIN cut |-> toUpperCase(cut[i])]

\* ticker.replace(/[^A-Za-z0-9.\-:^]/g, '').substring(0, 20).toUpperCase()
sanitizeTicker(ticker) ==
    LET kept == SelectSeq(ticker, LAMBDA ch : ch \in TickerChars)
        cut == substring(kept, TickerMaxLen)
    IN  [i \in DOMAIN cut |-> toUpperCase(cut[i])]

USDSuffix == <<"-", "U", "S", "D">>

endsWith(s, suf) ==
    /\ Len(s) >= Len(suf)
    /\ SubSeq(s, Len(s) - Len(suf) + 1, Len(s)) = suf

\* index of the first occurrence of pat in s, 0 when there is none
indexOf(s, pat) ==
    LET hits == {i \in 1..(Len(s) - Len(pat) + 1) : SubSeq(s, i, i + Len(pat) - 1) = pat}
    IN  IF hits = {} THEN 0 ELSE CHOOSE i \in hits : \A j \in hits : i <= j

\* String.prototype.replace with a string pattern: the first occurrence only
replaceFirst(s, pat, by) ==
    LET i == indexOf(s, pat)
    IN  IF i = 0 THEN s
        ELSE SubSeq(s, 1, i - 1) \o by \o SubSeq(s, i + Len(pat), Len(s))

\* the vendor symbol of getAssetQuote
massiveTicker(normalizedTicker) ==
    IF endsWith(normalizedTicker, USDSuffix)
    THEN <<"X", ":">> \o replaceFirst(normalizedTicker, USDSuffix, <<"U", "S", "D">>)
    ELSE normalizedTicker

\* getDateString(daysAgo): the calendar day of the clock, daysAgo days back.
\* A day is far longer than the horizon of the model.
TicksPerDay == 24 * 60 * 60
getDateString(daysAgo, t) == (t \div TicksPerDay) - daysAgo

\* the cache keys of getTickerSnapshot, getTickerDetails and getHistoricalBars
CacheKey(f, ticker, t) ==
    IF Facets[f] = "bars"
    THEN <<"bars", ticker, getDateString(365, t), getDateString(0, t)>>
    ELSE <<Facets[f], ticker>>

----------------------------------------------------------------------------
(* The result cache: getCached and setCache.                               *)

Entry(key, data, expiry) == [key |-> key, data |-> data, expiry |-> expiry]

Keys(c) == {c[i].key : i \in DOMAIN c}

EntryOf(c, key) == c[CHOOSE i \in DOMAIN c : c[i].key = key]

\* cache.delete(key)
Delete(c, key) == SelectSeq(c, LAMBDA e : e.key # key)

\* IsLive with the expiry test off by one: an entry is served at its expiry instant
IsLiveAtExpiry(c, key, t) == key \in Keys(c) /\ EntryOf(c, key).expiry >= t

\* cached && cached.expiry > Date.now()
IsLive(c, key, t) == key \in Keys(c) /\ EntryOf(c, key).expiry > t

\* the value getCached returns
getCachedData(c, key, t) == IF IsLive(c, key, t) THEN EntryOf(c, key).data ELSE Null

\* the cache getCached leaves behind
getCachedCache(c, key, t) == IF IsLive(c, key, t) THEN c ELSE Delete(c, key)

\* v.expiry < Date.now() || keysToDelete.length < cache.size - MAX_CACHE_SIZE + 1
EvictTest(e, nDeleted, size, t) ==
    e.expiry < t \/ nDeleted < size - MAX_CACHE_SIZE + 1

\* the loop of setCache over cache.entries(), from entry i on
RECURSIVE keysToDelete(_, _, _, _)
keysToDelete(c, i, acc, t) ==
    IF i > Len(c) THEN acc
    ELSE keysToDelete(c, i + 1,
                      IF EvictTest(c[i], Len(acc), Len(c), t)
                      THEN Append(acc, c[i].key) ELSE acc,
                      t)

\* AtCapacity with > for >=: eviction starts one insertion too late
AtCapacityLate(c) == Len(c) > MAX_CACHE_SIZE

\* cache.size >= MAX_CACHE_SIZE
AtCapacity(c) == Len(c) >= MAX_CACHE_SIZE

Evict(c, t) ==
    IF AtCapacity(c)
    THEN LET dead == Range(keysToDelete(c, 1, <<>>, t))
         IN  SelectSeq(c, LAMBDA e : e.key \notin dead)
    ELSE c

\* MapSet that leaves the entry of an existing key as it is
MapSetKeepOld(c, e) == IF e.key \in Keys(c) THEN c ELSE Append(c, e)

\* MapSet that adds an entry even when the key is present
MapSetAppend(c, e) == Append(c, e)

\* Map.prototype.set: an existing key keeps its place in the iteration order
MapSet(c, e) ==
    IF e.key \in Keys(c)
    THEN [i \in DOMAIN c |-> IF c[i].key = e.key THEN e ELSE c[i]]
    ELSE Append(c, e)

setCache(c, key, data, t) == MapSet(Evict(c, t), Entry(key, data, t + CACHE_TTL))

----------------------------------------------------------------------------
(* The quote assembler: the part of getAssetQuote after Promise.all.       *)

\* data?.ticker || null
snapshotOf(d) == IF d.kind = "snapshot" /\ d.hasTicker THEN d ELSE Null

\* data?.results || null
detailsOf(d) == IF d.kind = "details" /\ d.hasResults THEN d ELSE Null

\* data?.results || []  (the closes of the bars)
historicalBarsOf(d) == IF d.kind = "bars" THEN d.results ELSE <<>>

\* currentPrice with the previous-day close tried before the intraday close
currentPricePrevFirst(snapshot, historicalBars) ==
    IF snapshot # Null /\ Truthy(snapshot.prevC) THEN snapshot.prevC
    ELSE IF snapshot # Null /\ Truthy(snapshot.dayC) THEN snapshot.dayC
    ELSE IF Len(historicalBars) > 0 THEN historicalBars[Len(historicalBars)]
    ELSE Num(0)

\* the if / else-if chain that picks currentPrice, which starts as 0
currentPrice(snapshot, historicalBars) ==
    IF snapshot # Null /\ Truthy(snapshot.dayC) THEN snapshot.dayC
    ELSE IF snapshot # Null /\ Truthy(snapshot.prevC) THEN snapshot.prevC
    ELSE IF Len(historicalBars) > 0 THEN historicalBars[Len(historicalBars)]
    ELSE Num(0)

\* currentPrice === 0
NoPrice(price) == price = Num(0)

HistoryWindow == 50

\* historicalBars.slice(-50)
lastN(s, n) == IF Len(s) <= n THEN s ELSE SubSeq(s, Len(s) - n + 1, Len(s))

\* assembleQuote that answers a lookup which found nothing with an empty quote
assembleQuotePlaceholder(normalizedTicker, snapshotData, detailsData, barsData) ==
    LET historicalBars == historicalBarsOf(barsData)
        price == currentPrice(snapshotOf(snapshotData), historicalBars)
    IN  [kind |-> "quote", ticker |-> normalizedTicker, name |-> normalizedTicker,
         price |-> price, historicalPrices |-> lastN(historicalBars, HistoryWindow)]

\* the value the try block of getAssetQuote yields once its three sub-fetches
\* have settled
assembleQuote(normalizedTicker, snapshotData, detailsData, barsData) ==
    LET snapshot == snapshotOf(snapshotData)
        details == detailsOf(detailsData)
        historicalBars == historicalBarsOf(barsData)
        price == currentPrice(snapshot, historicalBars)
    IN  IF snapshot = Null /\ details = Null /\ Len(historicalBars) = 0 THEN Null
        ELSE IF NoPrice(price) THEN Null
        ELSE [kind |-> "quote",
              ticker |-> normalizedTicker,
              name |-> IF details # Null /\ details.name # <<>>
                       THEN details.name ELSE normalizedTicker,
              price |-> price,
              historicalPrices |-> lastN(historicalBars, HistoryWindow)]

----------------------------------------------------------------------------
(* The fetcher: fetchWithRetry.                                            *)

NoReq == [st |-> "none", key |-> <<>>, start |-> 0, data |-> Null, cause |-> "", sent |-> 0]

\* the synchronous prefix of fetchWithRetry: the cache lookup, then fetch(url)
\* with the abort timer armed
dispatch(c, key, t) ==
    LET cached == getCachedData(c, key, t)
    IN  IF TruthyData(cached)
        THEN [NoReq EXCEPT !.st = "hit", !.key = key, !.data = cached]
        ELSE [NoReq EXCEPT !.st = "headers", !.key = key, !.start = t, !.sent = 1]

\* onFailure with a second attempt: the request is sent once more
onFailureRetry(r, cause) ==
    IF r.sent < 2
    THEN [r EXCEPT !.st = "headers", !.start = now, !.sent = @ + 1]
    ELSE [r EXCEPT !.st = "fail", !.cause = cause, !.data = Null, !.start = 0]

\* a failure path of fetchWithRetry: log, return null
onFailure(r, cause) == [r EXCEPT !.st = "fail", !.cause = cause, !.data = Null, !.start = 0]

\* response.json() has resolved: setCache, return data
onBody(r, d) == [r EXCEPT !.st = "ok", !.data = d, !.start = 0]

\* what fetchWithRetry returns to its caller
fetchResult(r) == IF r.st \in {"hit", "ok"} THEN r.data ELSE Null

Settled(r) == r.st \in {"hit", "ok", "fail"}
InFlight(r) == r.st \in {"headers", "body"}

\* Promise.all that also settles as soon as one sub-fetch has failed
promiseAllFailFast(rc) ==
    (\A f \in FacetIds : Settled(rc[f])) \/ (\E f \in FacetIds : rc[f].st = "fail")

\* Promise.all over the three sub-fetches resolves once each has resolved
promiseAllResolved(rc) == \A f \in FacetIds : Settled(rc[f])

\* what is left of a sub-fetch once its call has returned: the settled promise
archive(r) == [r EXCEPT !.cause = ""]

----------------------------------------------------------------------------
(* searchAssets.                                                           *)

\* the character class [A-Za-z0-9\s.\-] of searchAssets' regular expression
Whitespace == {" "}
QueryChars == Range(LowerLetters) \cup Range(UpperLetters) \cup Digits
                \cup Whitespace \cup {".", "-"}

QueryMaxLen == 50

RECURSIVE trimStart(_)
trimStart(s) == IF s # <<>> /\ Head(s) \in Whitespace THEN trimStart(Tail(s)) ELSE s

RECURSIVE trimEnd(_)
trimEnd(s) ==
    IF s # <<>> /\ s[Len(s)] \in Whitespace THEN trimEnd(SubSeq(s, 1, Len(s) - 1)) ELSE s

\* query.replace(/[^A-Za-z0-9\s.\-]/g, '').substring(0, 50).trim()
sanitizeQuery(query) ==
    trimEnd(trimStart(substring(SelectSeq(query, LAMBDA ch : ch \in QueryChars),
                                QueryMaxLen)))

StockType == <<"s", "t", "o", "c", "k">>

\* the object searchAssets maps an upstream item to
searchItem(item) ==
    [symbol |-> item.ticker,
     name |-> IF item.name # <<>> THEN item.name ELSE item.ticker,
     type |-> IF item.type # <<>> THEN item.type
              ELSE IF item.market # <<>> THEN item.market ELSE StockType]

List(items) == [kind |-> "list", items |-> items]

\* the catch block of searchAssets: log, return []
catchEmpty(v) == IF v = Thrown THEN List(<<>>) ELSE v

\* what the try block of searchAssets yields for the data its fetch returned;
\* reading item.ticker of a null item throws a TypeError
searchResult(data) ==
    IF data.kind # "search" THEN List(<<>>)
    ELSE IF \E i \in DOMAIN data.results : ~data.results[i].obj THEN Thrown
    ELSE List([i \in DOMAIN data.results |-> searchItem(data.results[i])])

----------------------------------------------------------------------------
(* Inputs: the strings callers pass and the bodies the upstream sends.     *)

RawTickers == {<<>>, <<"$", " ">>, <<"a">>, <<"A", "!">>}

RawQueries == {<<"!">>, <<"x">>, <<"x", "!">>}

AcmeName == <<"A", "c", "m", "e">>

QuoteBodies(f) ==
    IF Facets[f] = "snapshot"
    THEN {Null, SnapNoTicker, Snap(Num(5), Num(4)), Snap(Num(0), Num(-5))}
    ELSE IF Facets[f] = "details"
    THEN {Details(AcmeName), DetailsNoResults}
    ELSE {Bars(<<>>), Bars(<<Num(3), Num(7)>>), Bars(<<Num(7), Undef>>)}

\* limit=10 in the URL of searchAssets
SearchLimit == 10

\* a result list one longer than the limit the request asked for
ManyItems == [i \in 1..(SearchLimit + 1) |-> Item(<<"X">>, <<>>, <<>>, <<>>)]

SearchBodies ==
    {Null, SearchBody(<<Item(<<"X">>, <<>>, <<>>, <<>>)>>), SearchBody(<<NullItem>>),
     SearchBody(ManyItems)}

\* HTTP statuses: success, rate limited, another non-2xx status
Statuses == {200, 429, 500}

----------------------------------------------------------------------------
(* State.                                                                  *)

NoCall == [st |-> "idle", op |-> "", arg |-> <<>>, cacheOps |-> 0, result |-> Null]

NoReqs == [f \in FacetIds |-> NoReq]

NoBatch == [st |-> "idle", tickers |-> <<>>, result |-> Null]

\* Caches that earlier lookups can have left behind when the model starts, each
\* built by the stores those lookups made, at the instants (up to 0) they made them.
KeyA(f) == CacheKey(f, <<"A">>, 0)
KeyB(f) == CacheKey(f, <<"B">>, 0)
GoodSnap == Snap(Num(5), Num(4))
GoodBars == Bars(<<Num(3), Num(7)>>)

\* a live snapshot of A
WarmSnapshot == setCache(<<>>, KeyA(1), GoodSnap, 0)
\* bars of A that expire at instant 0
StaleBars == setCache(<<>>, KeyA(3), GoodBars, 0 - CACHE_TTL)
\* an older entry of another ticker and live details of A
WarmDetails == setCache(setCache(<<>>, KeyB(1), GoodSnap, 0 - 1), KeyA(2), Details(AcmeName), 0)
\* a live snapshot of A whose body was the JSON value null
NullSnapshot == setCache(<<>>, KeyA(1), Null, 0)
\* a lookup of B has just filled the cache
FullOfB ==
    setCache(setCache(setCache(<<>>, KeyB(1), GoodSnap, 0), KeyB(2), Details(AcmeName), 0),
             KeyB(3), GoodBars, 0)
\* two overlapping lookups of B: the second one's snapshot arrived last and
\* was stored over the first one's, in its place
OverlappedB ==
    setCache(setCache(setCache(setCache(<<>>, KeyB(1), GoodSnap, 0 - CACHE_TTL),
                               KeyB(2), Details(AcmeName), 0 - CACHE_TTL),
                      KeyB(1), GoodSnap, 0),
             KeyB(3), GoodBars, 0)

PriorCaches ==
    {<<>>, WarmSnapshot, StaleBars, WarmDetails, NullSnapshot, FullOfB, OverlappedB}

\* the requests the assets router serves at a time
Slots == {1, 2}

\* MAX_ASSETS of the assets router, which the source sets to 50
MAX_ASSETS == 2

TickerList == <<"AAPL", "MSFT", "GOLD", "BTC", "ETH", "SLV">>

\* the tickers clients add to the watchlist and remove from it: one more
\* than the watchlist may hold
WatchTickers == {TickerList[i] : i \in 1..(MAX_ASSETS + 1)}

\* no request in slot s
NoHandler == [route |-> "none", ticker |-> "", pc |-> "idle", status |-> 0, rows |-> <<>>]

\* useAssetData before its effects have run: the initial values of useState
\* and useRef.  awaiting[s] is the function of the hook that awaits the
\* response of request s; kept holds the tickers whose addAsset has resolved
\* and whose removeAsset has not been called since.
NoHook ==
    [assets |-> <<>>, loading |-> TRUE, error |-> FALSE, isInitialLoad |-> TRUE,
     mounted |-> FALSE, awaiting |-> [s \in Slots |-> "none"], kept |-> {}]

\* an empty watchlist that nothing is looking at
NoWatch ==
    /\ table = <<>>
    /\ http = [s \in Slots |-> NoHandler]
    /\ hook = NoHook

\* the state in which the process starts serving
Init ==
    /\ now = 0
    /\ apiKey \in BOOLEAN
    /\ cache = <<>>
    /\ call = [c \in Calls |-> NoCall]
    /\ req = [c \in Calls |-> NoReqs]
    /\ batch = NoBatch
    /\ NoWatch

\* a later state of the process: the cache holds what earlier lookups stored
InitWarm ==
    /\ now = 0
    /\ apiKey \in BOOLEAN
    /\ cache \in PriorCaches
    /\ call = [c \in Calls |-> NoCall]
    /\ req = [c \in Calls |-> NoReqs]
    /\ batch = NoBatch
    /\ NoWatch

\* the sub-fetches a call awaits have all settled
Awaited(op, rc) == IF op = "quote" THEN promiseAllResolved(rc) ELSE Settled(rc[1])

\* the value a call returns once the sub-fetches it awaits have settled
Returned(op, arg, rc) ==
    IF op = "quote"
    THEN catchNull(assembleQuote(arg, fetchResult(rc[1]), fetchResult(rc[2]),
                                 fetchResult(rc[3])))
    ELSE catchEmpty(searchResult(fetchResult(rc[1])))

\* A call after a macrotask that leaves its sub-fetches as rc: when what it
\* awaits has resolved, the call runs on to its return.
settle(base, rc) ==
    IF Awaited(base.op, rc)
    THEN [call |-> [base EXCEPT !.st = "done", !.result = Returned(base.op, base.arg, rc)],
          req |-> [f \in FacetIds |-> archive(rc[f])]]
    ELSE [call |-> base, req |-> rc]

\* results.filter(quote => quote !== null) that keeps every element
filterQuotesKeepAll(results) == results

\* results.filter(quote => quote !== null)
filterQuotes(results) == SelectSeq(results, LAMBDA quote : quote # Null)

\* what getMultipleAssetQuotes yields once its lookups have settled:
\* Promise.all rejects when a lookup has rejected
multipleResult(results) ==
    IF \E i \in DOMAIN results : results[i] = Thrown THEN Thrown
    ELSE List(filterQuotes(results))

\* the batch once the calls stand as calls: when the last of its lookups has
\* returned, getMultipleAssetQuotes runs on to its return
batchAfter(b, calls) ==
    IF b.st = "awaiting" /\ \A i \in DOMAIN b.tickers : calls[i].st = "done"
    THEN [b EXCEPT !.st = "done",
                   !.result = multipleResult([i \in DOMAIN b.tickers |-> calls[i].result])]
    ELSE b

\* The state after a macrotask that leaves the sub-fetches of call c as rc.
Resume(c, base, rc) ==
    LET s == settle(base, rc)
    IN  /\ call' = [call EXCEPT ![c] = s.call]
        /\ req' = [req EXCEPT ![c] = s.req]
        /\ batch' = batchAfter(batch, call')

\* invalidTicker that lets every ticker through
invalidTickerNever(normalizedTicker) == FALSE

\* !normalizedTicker
invalidTicker(normalizedTicker) == normalizedTicker = <<>>

\* getAssetQuote(ticker), up to its await, run at instant t against cache c:
\* the cache, the call and the sub-fetches it leaves
startQuote(c, ticker, t) ==
    LET normalizedTicker == sanitizeTicker(ticker)
        symbol == massiveTicker(normalizedTicker)
        k1 == CacheKey(1, symbol, t)
        k2 == CacheKey(2, symbol, t)
        k3 == CacheKey(3, symbol, t)
        c1 == getCachedCache(c, k1, t)
        c2 == getCachedCache(c1, k2, t)
        c3 == getCachedCache(c2, k3, t)
        rc == <<dispatch(c, k1, t), dispatch(c1, k2, t), dispatch(c2, k3, t)>>
        started == [NoCall EXCEPT !.op = "quote", !.arg = normalizedTicker]
    IN  IF invalidTicker(normalizedTicker)
        THEN \* Invalid ticker after sanitization
             [cache |-> c, call |-> [started EXCEPT !.st = "done"], req |-> NoReqs]
        ELSE IF ~apiKey
        THEN \* getApiKey throws in each sub-fetch; the catch returns null
             [cache |-> c,
              call |-> [started EXCEPT !.st = "done", !.result = catchNull(Thrown)],
              req |-> NoReqs]
        ELSE LET s == settle([started EXCEPT !.st = "awaiting", !.cacheOps = 3], rc)
             IN  [cache |-> c3, call |-> s.call, req |-> s.req]

\* one call of getAssetQuote
GetAssetQuote(c, ticker) ==
    /\ call[c].st = "idle"
    /\ LET s == startQuote(cache, ticker, now)
       IN  /\ cache' = s.cache
           /\ call' = [call EXCEPT ![c] = s.call]
           /\ req' = [req EXCEPT ![c] = s.req]
    /\ UNCHANGED <<watch, now, apiKey, batch>>

\* the lookups of tickers[i..], started one after the other
RECURSIVE startAll(_, _, _)
startAll(tickers, i, acc) ==
    IF i > Len(tickers) THEN acc
    ELSE LET s == startQuote(acc.cache, tickers[i], now)
         IN  startAll(tickers, i + 1,
                      [cache |-> s.cache,
                       call |-> [acc.call EXCEPT ![i] = s.call],
                       req |-> [acc.req EXCEPT ![i] = s.req]])

\* getMultipleAssetQuotes(tickers), up to its await
GetMultipleAssetQuotes(tickers) ==
    /\ batch.st = "idle"
    /\ \A c \in Calls : call[c].st = "idle"
    /\ LET s == startAll(tickers, 1, [cache |-> cache, call |-> call, req |-> req])
       IN  /\ cache' = s.cache
           /\ call' = s.call
           /\ req' = s.req
           /\ batch' = batchAfter([NoBatch EXCEPT !.st = "awaiting", !.tickers = tickers],
                                  s.call)
    /\ UNCHANGED <<watch, now, apiKey>>

\* searchAssets(query), up to its await
SearchAssets(c, query) ==
    /\ call[c].st = "idle"
    /\ LET sanitizedQuery == sanitizeQuery(query)
           key == <<"search", query>>
           started == [NoCall EXCEPT !.op = "search", !.arg = query]
       IN  IF sanitizedQuery = <<>> \/ ~apiKey
           THEN \* return [] at once, or from the catch around getApiKey
                /\ call' = [call EXCEPT ![c] =
                               [started EXCEPT !.st = "done",
                                               !.result = IF sanitizedQuery = <<>>
                                                          THEN List(<<>>)
                                                          ELSE catchEmpty(Thrown)]]
                /\ UNCHANGED <<cache, req, batch>>
           ELSE /\ cache' = getCachedCache(cache, key, now)
                /\ Resume(c, [started EXCEPT !.st = "awaiting", !.cacheOps = 1],
                          [NoReqs EXCEPT ![1] = dispatch(cache, key, now)])
    /\ UNCHANGED <<watch, now, apiKey>>

\* the caller has taken the result of call c; the slot serves a later call
Return(c) ==
    /\ call[c].st = "done"
    /\ call' = [call EXCEPT ![c] = NoCall]
    /\ req' = [req EXCEPT ![c] = NoReqs]
    /\ UNCHANGED <<watch, now, apiKey, cache, batch>>

\* the response headers of a request arrive: clearTimeout, then the status checks
Headers(c, f, status) ==
    /\ req[c][f].st = "headers"
    /\ LET r == req[c][f]
           r2 == IF status = 429 THEN onFailure(r, "rate_limited")
                 ELSE IF status # 200 THEN onFailure(r, "http_error")
                 ELSE [r EXCEPT !.st = "body"]
       IN  Resume(c, call[c], [req[c] EXCEPT ![f] = r2])
    /\ UNCHANGED <<watch, now, apiKey, cache>>

\* the bodies the endpoint of a request can send
BodiesOf(c, f) == IF call[c].op = "quote" THEN QuoteBodies(f) ELSE SearchBodies

\* the body of a 200 response has been read and parsed
Body(c, f, d) ==
    /\ req[c][f].st = "body"
    /\ cache' = setCache(cache, req[c][f].key, d, now)
    /\ Resume(c, [call[c] EXCEPT !.cacheOps = @ + 1],
              [req[c] EXCEPT ![f] = onBody(req[c][f], d)])
    /\ UNCHANGED <<watch, now, apiKey>>

\* BodyFails that caches the failure as a null payload
BodyFailsCachesNull(c, f, cause) ==
    /\ req[c][f].st = "body"
    /\ cache' = setCache(cache, req[c][f].key, Null, now)
    /\ Resume(c, call[c], [req[c] EXCEPT ![f] = onFailure(req[c][f], cause)])
    /\ UNCHANGED <<watch, now, apiKey>>

\* response.json() rejects: the body is not JSON, or the connection broke
BodyFails(c, f, cause) ==
    /\ req[c][f].st = "body"
    /\ Resume(c, call[c], [req[c] EXCEPT ![f] = onFailure(req[c][f], cause)])
    /\ UNCHANGED <<watch, now, apiKey, cache>>

\* fetch() rejects before any response: a transport error
FetchRejects(c, f) ==
    /\ req[c][f].st = "headers"
    /\ Resume(c, call[c], [req[c] EXCEPT ![f] = onFailure(req[c][f], "transport")])
    /\ UNCHANGED <<watch, now, apiKey, cache>>

\* the abort timer is armed from fetch() until the headers arrive
TimerArmed(r) == r.st = "headers"

\* the abort timer fires: controller.abort(), fetch rejects with AbortError
Timeout(c, f) ==
    /\ TimerArmed(req[c][f])
    /\ now >= req[c][f].start + API_TIMEOUT
    /\ Resume(c, call[c], [req[c] EXCEPT ![f] = onFailure(req[c][f], "timeout")])
    /\ UNCHANGED <<watch, now, apiKey, cache>>

\* the clock advances; an armed timer fires no later than its deadline
Tick ==
    /\ now < MaxClock
    /\ \A c \in Calls, f \in FacetIds :
          TimerArmed(req[c][f]) => now < req[c][f].start + API_TIMEOUT
    /\ now' = now + 1
    /\ UNCHANGED <<watch, apiKey, cache, call, req, batch>>

\* what the upstream, the network and the timers do to the requests in flight
Upstream ==
    \/ \E c \in Calls, f \in FacetIds, s \in Statuses : Headers(c, f, s)
    \/ \E c \in Calls, f \in FacetIds : \E d \in BodiesOf(c, f) : Body(c, f, d)
    \/ \E c \in Calls, f \in FacetIds, cause \in {"parse", "transport"} : BodyFails(c, f, cause)
    \/ \E c \in Calls, f \in FacetIds : FetchRejects(c, f)
    \/ \E c \in Calls, f \in FacetIds : Timeout(c, f)

\* One lookup: a single getAssetQuote with its three concurrent sub-fetches,
\* against a cache that earlier lookups have filled.
NextQuote ==
    \/ \E t \in RawTickers : GetAssetQuote(1, t)
    \/ Upstream
    \/ Tick

SpecQuote == InitWarm /\ [][NextQuote]_vars

\* Concurrent callers: searchAssets calls, one fetch each, racing on the cache.
NextSearch ==
    \/ \E c \in Calls, q \in RawQueries : SearchAssets(c, q)
    \/ \E c \in Calls : Return(c)
    \/ Upstream
    \/ Tick

SpecSearch == Init /\ [][NextSearch]_vars

\* the ticker lists passed to getMultipleAssetQuotes
BatchTickers == {<<"$", " ">>, <<"a">>}
Batches == {<<>>} \cup {<<t>> : t \in BatchTickers}
             \cup {<<t, u>> : t, u \in BatchTickers}

\* the upstream of a batch: a request is answered with a body, is refused
\* with a non-2xx status, or times out
BatchStatuses == {200, 500}
BatchBodies(f) ==
    IF Facets[f] = "snapshot" THEN {GoodSnap}
    ELSE IF Facets[f] = "details" THEN {Details(AcmeName)}
    ELSE {GoodBars}

\* A batch: one getMultipleAssetQuotes, whose lookups run concurrently.
NextBatch ==
    \/ \E tickers \in Batches : GetMultipleAssetQuotes(tickers)
    \/ \E c \in Calls, f \in FacetIds, s \in BatchStatuses : Headers(c, f, s)
    \/ \E c \in Calls, f \in FacetIds : \E d \in BatchBodies(f) : Body(c, f, d)
    \/ \E c \in Calls, f \in FacetIds : Timeout(c, f)
    \/ Tick

SpecBatch == Init /\ [][NextBatch]_vars

\* the ticker lists with at most one ticker that survives sanitizeTicker
FacadeBatches ==
    {ts \in Batches : Cardinality({i \in DOMAIN ts : ~invalidTicker(sanitizeTicker(ts[i]))}) <= 1}

\* The facade under every outcome of the upstream: a batch with one lookup in
\* flight, or a search.
NextFacade ==
    \/ \E tickers \in FacadeBatches : GetMultipleAssetQuotes(tickers)
    \/ \E q \in RawQueries : batch.st = "idle" /\ SearchAssets(1, q)
    \/ Upstream
    \/ Tick

SpecFacade == Init /\ [][NextFacade]_vars

----------------------------------------------------------------------------
(* sanitizeTicker on its own.                                              *)

Repeat(ch, n) == [i \in 1..n |-> ch]

\* tickers of every length around the cut, of characters inside and outside
\* the class, in both cases
TickerInputs ==
    {pre \o Repeat(ch, n) \o post :
        pre \in {<<>>, <<"a", "!">>, <<"^", "G">>, <<"-", "u", "s", "d">>},
        ch \in {"a", "$", "9"},
        n \in 0..MaxRun,
        post \in {<<>>, <<"!", "-", "u", "S", "d">>}}

StringValue(s) == [kind |-> "string", s |-> s]

\* one call of sanitizeTicker
SanitizeTicker(c, ticker) ==
    /\ call[c].st = "idle"
    /\ call' = [call EXCEPT ![c] =
                   [NoCall EXCEPT !.st = "done", !.op = "sanitizeTicker", !.arg = ticker,
                                  !.result = StringValue(sanitizeTicker(ticker))]]
    /\ UNCHANGED <<watch, now, apiKey, cache, req, batch>>

\* sanitizeTicker applied to what call c returned
SanitizeAgain(c) ==
    /\ call[c].st = "done" /\ call[c].op = "sanitizeTicker"
    /\ call[c].arg # call[c].result.s
    /\ call' = [call EXCEPT ![c] =
                   [@ EXCEPT !.arg = call[c].result.s,
                             !.result = StringValue(sanitizeTicker(call[c].result.s))]]
    /\ UNCHANGED <<watch, now, apiKey, cache, req, batch>>

\* the vendor symbol getAssetQuote derives from the ticker call c sanitized
MassiveTicker(c) ==
    /\ call[c].st = "done" /\ call[c].op = "sanitizeTicker"
    /\ call[c].result.s # <<>>
    /\ call' = [call EXCEPT ![c] =
                   [@ EXCEPT !.op = "massiveTicker", !.arg = call[c].result.s,
                             !.result = StringValue(massiveTicker(call[c].result.s))]]
    /\ UNCHANGED <<watch, now, apiKey, cache, req, batch>>

NextSanitize ==
    \/ \E ticker \in TickerInputs : SanitizeTicker(1, ticker)
    \/ SanitizeAgain(1)
    \/ MassiveTicker(1)

SpecSanitize == Init /\ [][NextSanitize]_vars

----------------------------------------------------------------------------
(* The signal scorers: calculateShortTermSignal, calculateLongTermSignal.  *)
(* Prices, averages and percentages are integers; a percentage test        *)
(* ((x - b) / b) * 100 > k is decided without the division.                *)

\* a `number | null` argument that is null
NullNum == [t |-> "null", n |-> 0]

\* ((x - b) / b) * 100 > k
PctGt(x, b, k) ==
    IF b > 0 THEN (x - b) * 100 > k * b
    ELSE IF b < 0 THEN (x - b) * 100 < k * b
    ELSE x - b > 0

\* ((x - b) / b) * 100 < k
PctLt(x, b, k) ==
    IF b > 0 THEN (x - b) * 100 < k * b
    ELSE IF b < 0 THEN (x - b) * 100 > k * b
    ELSE x - b < 0

\* calculatePercentChange(current, previous) > k: the change is 0 when previous is 0
ChangeGt(current, previous, k) == IF previous = 0 THEN 0 > k ELSE PctGt(current, previous, k)

\* calculatePercentChange(current, previous) < k
ChangeLt(current, previous, k) == IF previous = 0 THEN 0 < k ELSE PctLt(current, previous, k)

\* a daily bar: its close and its volume
Bar(c, v) == [c |-> c, v |-> v]

RECURSIVE sumVolume(_, _, _)
sumVolume(bars, from, to) ==
    IF from > to THEN 0 ELSE bars[from].v + sumVolume(bars, from + 1, to)

\* a rule that triggered: score += w; reasons.push(reason)
Hit(w, reason) == <<[w |-> w, reason |-> reason]>>
NoHit == <<>>

\* Strategy 1 of the short-term scorer: RSI
shortRsi(rsi) ==
    IF rsi = NullNum THEN NoHit
    ELSE IF rsi.n < 30 THEN Hit(25, "RSI oversold (<30)")
    ELSE IF rsi.n < 40 THEN Hit(15, "RSI approaching oversold")
    ELSE IF rsi.n > 70 THEN Hit(0 - 25, "RSI overbought (>70)")
    ELSE IF rsi.n > 60 THEN Hit(0 - 10, "RSI approaching overbought")
    ELSE NoHit

\* Strategy 2: price against SMA20
shortSma20(price, sma20) ==
    IF sma20 = NullNum THEN NoHit
    ELSE IF PctGt(price, sma20.n, 5) THEN Hit(0 - 15, "Price >5% above SMA20")
    ELSE IF PctLt(price, sma20.n, 0 - 5)
    THEN Hit(20, "Price >5% below SMA20 (potential bounce)")
    ELSE IF PctGt(price, sma20.n, 0) THEN Hit(5, "Price above SMA20")
    ELSE NoHit

\* shortMomentum that pushes the reason of the other branch
shortMomentumWrongReason(price, bars) ==
    IF Len(bars) < 5 THEN NoHit
    ELSE IF ChangeLt(price, bars[Len(bars) - 4].c, 0 - 5)
    THEN Hit(15, "5-day rally (potential pullback)")
    ELSE IF ChangeGt(price, bars[Len(bars) - 4].c, 5)
    THEN Hit(0 - 10, "5-day dip (potential rebound)")
    ELSE NoHit

\* Strategy 3: the change over five days
shortMomentum(price, bars) ==
    IF Len(bars) < 5 THEN NoHit
    ELSE IF ChangeLt(price, bars[Len(bars) - 4].c, 0 - 5)
    THEN Hit(15, "5-day dip (potential rebound)")
    ELSE IF ChangeGt(price, bars[Len(bars) - 4].c, 5)
    THEN Hit(0 - 10, "5-day rally (potential pullback)")
    ELSE NoHit

\* Strategy 4: recentVolume > priorVolume * 1.5 on a rising close
shortVolume(bars) ==
    IF Len(bars) < 10 THEN NoHit
    ELSE LET n == Len(bars)
             recent == sumVolume(bars, n - 4, n)
             prior == sumVolume(bars, n - 9, n - 5)
         IN  IF 2 * recent > 3 * prior /\ bars[n].c > bars[n - 1].c
             THEN Hit(15, "High volume buying") ELSE NoHit

\* Strategy 5: the distance from the 52-week high
shortSupport(delta) ==
    IF delta = NullNum THEN NoHit
    ELSE IF delta.n < 0 - 30 THEN Hit(15, "Near 52-week support")
    ELSE IF delta.n > 0 - 5 THEN Hit(0 - 10, "Near 52-week high (resistance)")
    ELSE NoHit

\* shortTermCategory with a strict test at the strong_buy threshold
shortTermCategoryStrict(score) ==
    IF score > 40 THEN "strong_buy"
    ELSE IF score >= 15 THEN "buy"
    ELSE IF score <= 0 - 40 THEN "strong_sell"
    ELSE IF score <= 0 - 15 THEN "sell"
    ELSE "hold"

\* the if / else-if chain that sets the short-term signal from the score
shortTermCategory(score) ==
    IF score >= 40 THEN "strong_buy"
    ELSE IF score >= 15 THEN "buy"
    ELSE IF score <= 0 - 40 THEN "strong_sell"
    ELSE IF score <= 0 - 15 THEN "sell"
    ELSE "hold"

\* the score the rules that triggered add up to
RECURSIVE scoreOf(_)
scoreOf(hits) == IF hits = <<>> THEN 0 ELSE Head(hits).w + scoreOf(Tail(hits))

\* the reasons the rules that triggered pushed
reasonsOf(hits) == [i \in DOMAIN hits |-> hits[i].reason]

\* { signal, score, reasons }
Signal(signal, score, reasons) ==
    [kind |-> "signal", signal |-> signal, score |-> score, reasons |-> reasons]

calculateShortTermSignal(price, sma20, rsi, deltaFrom52WeekHigh, bars) ==
    LET hits == shortRsi(rsi) \o shortSma20(price, sma20) \o shortMomentum(price, bars)
                  \o shortVolume(bars) \o shortSupport(deltaFrom52WeekHigh)
        score == scoreOf(hits)
    IN  Signal(shortTermCategory(score), score, reasonsOf(hits))

\* Strategy 1 of the long-term scorer: SMA50 against SMA200
longCross(sma50, sma200) ==
    IF sma50 = NullNum \/ sma200 = NullNum THEN NoHit
    ELSE IF sma50.n > sma200.n THEN Hit(25, "Golden cross (SMA50 > SMA200)")
    ELSE Hit(0 - 20, "Death cross (SMA50 < SMA200)")

\* Strategy 2: price against SMA200
longSma200(price, sma200) ==
    IF sma200 = NullNum THEN NoHit
    ELSE IF PctGt(price, sma200.n, 0) /\ PctLt(price, sma200.n, 20)
    THEN Hit(20, "Price in uptrend above SMA200")
    ELSE IF PctLt(price, sma200.n, 0 - 10)
    THEN Hit(15, "Price well below SMA200 (value opportunity)")
    ELSE IF PctGt(price, sma200.n, 40) THEN Hit(0 - 15, "Price extended above SMA200")
    ELSE NoHit

\* Strategy 3: the position in the 52-week range
longPosition(delta) ==
    IF delta = NullNum THEN NoHit
    ELSE IF delta.n > 0 - 10 THEN Hit(10, "Near 52-week highs (momentum)")
    ELSE IF delta.n < 0 - 40 THEN Hit(15, "Significant discount from highs")
    ELSE IF delta.n < 0 - 20 /\ delta.n > 0 - 40
    THEN Hit(10, "Moderate pullback (entry opportunity)")
    ELSE NoHit

\* Strategy 4: the change over one year
longPerformance(oneYearChange) ==
    IF oneYearChange = NullNum THEN NoHit
    ELSE IF oneYearChange.n > 20 /\ oneYearChange.n < 100
    THEN Hit(15, "Strong 1-year performance")
    ELSE IF oneYearChange.n < 0 - 20 THEN Hit(0 - 10, "Weak 1-year performance")
    ELSE IF oneYearChange.n > 100 THEN Hit(0 - 5, "Extended gains (caution)")
    ELSE NoHit

\* Strategy 5: the market cap, in units of 1e9
longMarketCap(marketCap) ==
    IF marketCap = NullNum THEN NoHit
    ELSE IF marketCap.n > 200 THEN Hit(10, "Large cap (stability)")
    ELSE IF marketCap.n > 10 THEN Hit(5, "Mid cap")
    ELSE NoHit

\* the if / else-if chain that sets the long-term signal from the score
longTermCategory(score) ==
    IF score >= 40 THEN "strong_buy"
    ELSE IF score >= 15 THEN "buy"
    ELSE IF score <= 0 - 30 THEN "strong_sell"
    ELSE IF score <= 0 - 10 THEN "sell"
    ELSE "hold"

calculateLongTermSignal(price, sma50, sma200, oneYearChange, deltaFrom52WeekHigh, marketCap) ==
    LET hits == longCross(sma50, sma200) \o longSma200(price, sma200)
                  \o longPosition(deltaFrom52WeekHigh) \o longPerformance(oneYearChange)
                  \o longMarketCap(marketCap)
        score == scoreOf(hits)
    IN  Signal(longTermCategory(score), score, reasonsOf(hits))

\* n bars that close at base, the last one at last, with volume vOld up to
\* the last five bars and vNew on them
Series(n, base, last, vOld, vNew) ==
    [i \in 1..n |-> Bar(IF i = n THEN last ELSE base, IF i > n - 5 THEN vNew ELSE vOld)]

ShortBars ==
    {<<>>, Series(5, 100, 100, 1, 1), Series(10, 100, 100, 1, 1), Series(10, 100, 101, 1, 2)}

\* the arguments of the short-term scorer: each indicator absent, and present
\* on either side of each of its thresholds
ShortInputs ==
    [price : {90, 100, 103, 110},
     sma20 : {NullNum, Num(100)},
     rsi : {NullNum, Num(29), Num(39), Num(50), Num(61), Num(71)},
     delta : {NullNum, Num(0 - 35), Num(0 - 10), Num(0 - 2)},
     bars : ShortBars]

\* the arguments of the long-term scorer
LongInputs ==
    [price : {85, 100, 110, 150},
     sma50 : {NullNum, Num(90), Num(100), Num(110)},
     sma200 : {NullNum, Num(100)},
     oneYearChange : {NullNum, Num(0 - 30), Num(0), Num(50), Num(150)},
     delta : {NullNum, Num(0 - 50), Num(0 - 30), Num(0 - 15), Num(0 - 5)},
     marketCap : {NullNum, Num(5), Num(50), Num(500)}]

\* one call of calculateShortTermSignal
CalculateShortTermSignal(c, in) ==
    /\ call[c].st = "idle"
    /\ call' = [call EXCEPT ![c] =
                   [NoCall EXCEPT !.st = "done", !.op = "shortTerm", !.arg = in,
                                  !.result = calculateShortTermSignal(
                                                 in.price, in.sma20, in.rsi, in.delta, in.bars)]]
    /\ UNCHANGED <<watch, now, apiKey, cache, req, batch>>

\* one call of calculateLongTermSignal
CalculateLongTermSignal(c, in) ==
    /\ call[c].st = "idle"
    /\ call' = [call EXCEPT ![c] =
                   [NoCall EXCEPT !.st = "done", !.op = "longTerm", !.arg = in,
                                  !.result = calculateLongTermSignal(
                                                 in.price, in.sma50, in.sma200,
                                                 in.oneYearChange, in.delta, in.marketCap)]]
    /\ UNCHANGED <<watch, now, apiKey, cache, req, batch>>

NextSignal ==
    \/ \E in \in ShortInputs : CalculateShortTermSignal(1, in)
    \/ \E in \in LongInputs : CalculateLongTermSignal(1, in)

SpecSignal == Init /\ [][NextSignal]_vars

----------------------------------------------------------------------------
(* The indicators: calculateSMA and calculateRSI.  Closes are integers;    *)
(* a quotient is kept as the exact fraction num / den, with den > 0.       *)

Rat(n, d) == [t |-> "number", num |-> n, den |-> d]
Whole(n) == Rat(n, 1)

RatAdd(a, b) == Rat(a.num * b.den + b.num * a.den, a.den * b.den)
RatSub(a, b) == Rat(a.num * b.den - b.num * a.den, a.den * b.den)
\* a / b for b > 0
RatDiv(a, b) == Rat(a.num * b.den, a.den * b.num)

RECURSIVE sumCloses(_, _)
\* bars.reduce((acc, bar) => acc + bar.c, 0)
sumCloses(bars, acc) ==
    IF bars = <<>> THEN acc ELSE sumCloses(Tail(bars), acc + Head(bars).c)

\* calculateSMA that averages over all the bars it is given
calculateSMAAll(bars, period) ==
    IF Len(bars) < period THEN NullNum
    ELSE Rat(sumCloses(bars, 0), period)

\* calculateSMA(bars, period)
calculateSMA(bars, period) ==
    IF Len(bars) < period THEN NullNum
    ELSE LET recentBars == lastN(bars, period)
             sum == sumCloses(recentBars, 0)
         IN  Rat(sum, period)

\* the default period of calculateRSI
RsiPeriod == 14

Abs(n) == IF n < 0 THEN 0 - n ELSE n

\* the loop of calculateRSI from index i on: the gains and the losses
RECURSIVE rsiLoop(_, _, _, _)
rsiLoop(recentBars, i, gains, losses) ==
    IF i > Len(recentBars) THEN [gains |-> gains, losses |-> losses]
    ELSE LET change == recentBars[i].c - recentBars[i - 1].c
         IN  IF change > 0
             THEN rsiLoop(recentBars, i + 1, gains + change, losses)
             ELSE rsiLoop(recentBars, i + 1, gains, losses + Abs(change))

\* what calculateRSI returns once it has enough bars
rsiValue(bars, period) ==
    LET recentBars == lastN(bars, period + 1)
        sums == rsiLoop(recentBars, 2, 0, 0)
        avgGain == Rat(sums.gains, period)
        avgLoss == Rat(sums.losses, period)
    IN  IF avgLoss.num = 0 THEN Whole(100)
        ELSE LET rs == RatDiv(avgGain, avgLoss)
             IN  RatSub(Whole(100), RatDiv(Whole(100), RatAdd(Whole(1), rs)))

\* calculateRSI whose length test forgets the bar before the first change
calculateRSIShort(bars, period) ==
    IF Len(bars) < period THEN NullNum ELSE rsiValue(bars, period)

\* calculateRSI(bars, period)
calculateRSI(bars, period) ==
    IF Len(bars) < period + 1 THEN NullNum ELSE rsiValue(bars, period)

\* series of n daily bars: flat, rising, falling, alternating, a first bar far
\* from the rest, and a fall that turns into a rise
ClosePatterns == {"flat", "up", "down", "zigzag", "spike", "turn"}
closeAt(pattern, i, n) ==
    IF pattern = "flat" THEN 10
    ELSE IF pattern = "up" THEN i
    ELSE IF pattern = "down" THEN n + 1 - i
    ELSE IF pattern = "zigzag" THEN 10 + 3 * (i % 2)
    ELSE IF pattern = "spike" THEN (IF i = 1 THEN 1000 ELSE 10 + (i % 3))
    ELSE (IF i <= n - (RsiPeriod + 1) THEN 100 - i ELSE i)

BarSeries(pattern, n) == [i \in 1..n |-> Bar(closeAt(pattern, i, n), 1)]

IndicatorBars ==
    {BarSeries(pattern, n) : pattern \in ClosePatterns, n \in 0..MaxBars}
        \cup {<<Bar(10, 1), Bar(20, 1), Bar(30, 1)>>}

\* the periods of calculateSMA; getAssetQuote asks for 20, 50 and 200
SmaPeriods == {1, 3, 20}

\* one call of calculateSMA
CalculateSMA(c, bars, period) ==
    /\ call[c].st = "idle"
    /\ call' = [call EXCEPT ![c] =
                   [NoCall EXCEPT !.st = "done", !.op = "sma",
                                  !.arg = [bars |-> bars, period |-> period],
                                  !.result = calculateSMA(bars, period)]]
    /\ UNCHANGED <<watch, now, apiKey, cache, req, batch>>

\* one call of calculateRSI, with its default period
CalculateRSI(c, bars) ==
    /\ call[c].st = "idle"
    /\ call' = [call EXCEPT ![c] =
                   [NoCall EXCEPT !.st = "done", !.op = "rsi",
                                  !.arg = [bars |-> bars, period |-> RsiPeriod],
                                  !.result = calculateRSI(bars, RsiPeriod)]]
    /\ UNCHANGED <<watch, now, apiKey, cache, req, batch>>

NextIndicators ==
    \/ \E bars \in IndicatorBars, period \in SmaPeriods : CalculateSMA(1, bars, period)
    \/ \E bars \in IndicatorBars : CalculateRSI(1, bars)

SpecIndicators == Init /\ [][NextIndicators]_vars

----------------------------------------------------------------------------
(* The assets router over the watchlist store.  A handler runs from one     *)
(* await to the next in one step; the queries of prisma.asset are atomic.   *)

service == <<now, apiKey, cache, call, req, batch>>

\* slot s takes a request
Free(s) == http[s].pc \in {"idle", "done"}

request(route, ticker, pc) ==
    [NoHandler EXCEPT !.route = route, !.ticker = ticker, !.pc = pc]

\* the handler of slot s goes on to its next await
goto(s, pc) == [http EXCEPT ![s].pc = pc]

\* res.status(status).json(rows), or the error handler's answer to a throw
respond(s, status, rows) ==
    [http EXCEPT ![s].pc = "done", ![s].status = status, ![s].rows = rows]

Stored(ticker) == \E i \in DOMAIN table : table[i] = ticker

\* findMany({ orderBy: createdAt, take: MAX_ASSETS })
take(rows, n) == SubSeq(rows, 1, IF Len(rows) < n THEN Len(rows) ELSE n)

\* POST /: the handler starts and awaits prisma.asset.count()
PostAsset(s, ticker) ==
    /\ Free(s)
    /\ http' = [http EXCEPT ![s] = request("post", ticker, "count")]
    /\ UNCHANGED <<service, table, hook>>

\* the count arrives: 400 at the limit, else await findUnique
PostCount(s) ==
    /\ http[s].route = "post" /\ http[s].pc = "count"
    /\ http' = IF Len(table) >= MAX_ASSETS THEN respond(s, 400, <<>>)
               ELSE goto(s, "findUnique")
    /\ UNCHANGED <<service, table, hook>>

\* the row arrives: 409 when the ticker is stored, else await getAssetQuote
PostFindUnique(s) ==
    /\ http[s].route = "post" /\ http[s].pc = "findUnique"
    /\ http' = IF Stored(http[s].ticker) THEN respond(s, 409, <<>>)
               ELSE goto(s, "quote")
    /\ UNCHANGED <<service, table, hook>>

\* the quote arrives: 404 when there is none, else await create
PostQuote(s, found) ==
    /\ http[s].route = "post" /\ http[s].pc = "quote"
    /\ http' = IF found THEN goto(s, "create") ELSE respond(s, 404, <<>>)
    /\ UNCHANGED <<service, table, hook>>

\* prisma.asset.create: the row is stored and the answer is 201; the store
\* rejects a second row of a ticker, which the error handler answers with 500
PostCreate(s) ==
    /\ http[s].route = "post" /\ http[s].pc = "create"
    /\ IF Stored(http[s].ticker)
       THEN /\ http' = respond(s, 500, <<>>)
            /\ UNCHANGED table
       ELSE /\ table' = Append(table, http[s].ticker)
            /\ http' = respond(s, 201, <<http[s].ticker>>)
    /\ UNCHANGED <<service, hook>>

\* DELETE /:ticker: the handler starts and awaits findUnique
DeleteAsset(s, ticker) ==
    /\ Free(s)
    /\ http' = [http EXCEPT ![s] = request("delete", ticker, "findUnique")]
    /\ UNCHANGED <<service, table, hook>>

\* the row arrives: 404 when the ticker is not stored, else await delete
DeleteFindUnique(s) ==
    /\ http[s].route = "delete" /\ http[s].pc = "findUnique"
    /\ http' = IF Stored(http[s].ticker) THEN goto(s, "delete")
               ELSE respond(s, 404, <<>>)
    /\ UNCHANGED <<service, table, hook>>

\* prisma.asset.delete: the row is deleted and the answer is 200; the store
\* rejects the delete of a row that is gone, which is answered with 500
DeleteDelete(s) ==
    /\ http[s].route = "delete" /\ http[s].pc = "delete"
    /\ IF Stored(http[s].ticker)
       THEN /\ table' = SelectSeq(table, LAMBDA row : row # http[s].ticker)
            /\ http' = respond(s, 200, <<>>)
       ELSE /\ http' = respond(s, 500, <<>>)
            /\ UNCHANGED table
    /\ UNCHANGED <<service, hook>>

\* GET /, whose handler awaits findMany first.  The rows arrive: [] is
\* answered at once, else the handler awaits getMultipleAssetQuotes;
\* a query the store fails is answered with 500
GetFindMany(s, answered) ==
    /\ http[s].route = "get" /\ http[s].pc = "findMany"
    /\ http' = IF ~answered THEN respond(s, 500, <<>>)
               ELSE IF table = <<>> THEN respond(s, 200, <<>>)
               ELSE [goto(s, "quotes") EXCEPT ![s].rows = take(table, MAX_ASSETS)]
    /\ UNCHANGED <<service, table, hook>>

\* the quotes arrive: every row read is answered, with or without a quote
GetQuotes(s) ==
    /\ http[s].route = "get" /\ http[s].pc = "quotes"
    /\ http' = respond(s, 200, http[s].rows)
    /\ UNCHANGED <<service, table, hook>>

\* the watchlists earlier requests have stored
Watchlists == {SubSeq(TickerList, 1, n) : n \in 0..MAX_ASSETS}

InitRoutes ==
    /\ now = 0
    /\ apiKey = TRUE
    /\ cache = <<>>
    /\ call = [c \in Calls |-> NoCall]
    /\ req = [c \in Calls |-> NoReqs]
    /\ batch = NoBatch
    /\ table \in Watchlists
    /\ http = [s \in Slots |-> NoHandler]
    /\ hook = NoHook

\* add and remove requests of any clients, served concurrently
NextRoutes ==
    \/ \E s \in Slots, ticker \in WatchTickers : PostAsset(s, ticker)
    \/ \E s \in Slots : PostCount(s)
    \/ \E s \in Slots : PostFindUnique(s)
    \/ \E s \in Slots, found \in BOOLEAN : PostQuote(s, found)
    \/ \E s \in Slots : PostCreate(s)
    \/ \E s \in Slots, ticker \in WatchTickers : DeleteAsset(s, ticker)
    \/ \E s \in Slots : DeleteFindUnique(s)
    \/ \E s \in Slots : DeleteDelete(s)

SpecRoutes == InitRoutes /\ [][NextRoutes]_vars

----------------------------------------------------------------------------
(* useAssetData: the hook of the browser over the routes.  Each function   *)
(* of the hook runs up to its await in one step and from the response to   *)
(* its end in another; request s of the hook is served by http[s].         *)

\* the hook may send request s
Idle(s) == hook.awaiting[s] = "none" /\ http[s].pc = "idle"

\* the response of request s has arrived for the function f that awaits it
Arrived(s, f) == hook.awaiting[s] = f /\ http[s].pc = "done"

\* response.ok
ok(status) == status >= 200 /\ status <= 299

\* loadAssets, up to `await fetchAssets()`: the initial load of the first
\* effect, a tick of the refresh interval or a manual refresh
LoadAssets(s) ==
    /\ Idle(s)
    /\ hook' = [hook EXCEPT !.mounted = TRUE,
                            !.loading = IF hook.isInitialLoad THEN TRUE ELSE @,
                            !.awaiting[s] = "load"]
    /\ http' = [http EXCEPT ![s] = request("get", "", "findMany")]
    /\ UNCHANGED <<service, table>>

\* loadAssets, from the response on: setAssets(data), or the catch
LoadSettles(s) ==
    /\ Arrived(s, "load")
    /\ hook' = IF ok(http[s].status)
               THEN [hook EXCEPT !.assets = http[s].rows, !.error = FALSE,
                                 !.isInitialLoad = FALSE, !.loading = FALSE,
                                 !.awaiting[s] = "none"]
               ELSE [hook EXCEPT !.error = TRUE, !.loading = FALSE,
                                 !.awaiting[s] = "none"]
    /\ http' = [http EXCEPT ![s] = NoHandler]
    /\ UNCHANGED <<service, table>>

\* addAsset(ticker), up to `await apiAddAsset(ticker, type)`
AddAsset(s, ticker) ==
    /\ hook.mounted /\ Idle(s)
    /\ hook' = [hook EXCEPT !.awaiting[s] = "add"]
    /\ http' = [http EXCEPT ![s] = request("post", ticker, "count")]
    /\ UNCHANGED <<service, table>>

\* addAsset, from the response on: setAssets(prev => [...prev, newAsset]),
\* or the error thrown on to the caller
AddSettles(s) ==
    /\ Arrived(s, "add")
    /\ hook' = IF ok(http[s].status)
               THEN [hook EXCEPT !.assets = Append(@, http[s].ticker),
                                 !.kept = @ \cup {http[s].ticker},
                                 !.awaiting[s] = "none"]
               ELSE [hook EXCEPT !.awaiting[s] = "none"]
    /\ http' = [http EXCEPT ![s] = NoHandler]
    /\ UNCHANGED <<service, table>>

\* removeAsset(ticker), up to `await apiRemoveAsset(ticker)`
RemoveAsset(s, ticker) ==
    /\ hook.mounted /\ Idle(s)
    /\ hook' = [hook EXCEPT !.awaiting[s] = "remove", !.kept = @ \ {ticker}]
    /\ http' = [http EXCEPT ![s] = request("delete", ticker, "findUnique")]
    /\ UNCHANGED <<service, table>>

\* removeAsset, from the response on: the filter, or the error thrown on
RemoveSettles(s) ==
    /\ Arrived(s, "remove")
    /\ hook' = IF ok(http[s].status)
               THEN [hook EXCEPT !.assets = SelectSeq(@, LAMBDA a : a # http[s].ticker),
                                 !.awaiting[s] = "none"]
               ELSE [hook EXCEPT !.awaiting[s] = "none"]
    /\ http' = [http EXCEPT ![s] = NoHandler]
    /\ UNCHANGED <<service, table>>

\* the tickers the user of the page adds and removes
HookTickers == {TickerList[1], TickerList[2]}

\* one page over the routes
NextHook ==
    \/ \E s \in Slots : LoadAssets(s)
    \/ \E s \in Slots : LoadSettles(s)
    \/ \E s \in Slots, ticker \in HookTickers : AddAsset(s, ticker)
    \/ \E s \in Slots : AddSettles(s)
    \/ \E s \in Slots, ticker \in HookTickers : RemoveAsset(s, ticker)
    \/ \E s \in Slots : RemoveSettles(s)
    \/ \E s \in Slots, answered \in BOOLEAN : GetFindMany(s, answered)
    \/ \E s \in Slots : GetQuotes(s)
    \/ \E s \in Slots : PostCount(s)
    \/ \E s \in Slots : PostFindUnique(s)
    \/ \E s \in Slots, found \in BOOLEAN : PostQuote(s, found)
    \/ \E s \in Slots : PostCreate(s)
    \/ \E s \in Slots : DeleteFindUnique(s)
    \/ \E s \in Slots : DeleteDelete(s)

SpecHook == InitRoutes /\ [][NextHook]_vars

----------------------------------------------------------------------------
(* Steps of the fetcher, as the properties below name them.                *)

\* call c starts in this step and its sub-fetch f looks its key up in the cache
Looks(c, f) == call[c].st = "idle" /\ req'[c][f].st # "none"

\* the body of sub-fetch f of call c arrives in this step: setCache(key, data)
Stores(c, f) == req[c][f].st = "body" /\ req'[c][f].st = "ok"

\* the upstream requests call c has issued
Sent(c) == req[c][1].sent + req[c][2].sent + req[c][3].sent

\* call c is a lookup that has dispatched its sub-fetches
Dispatched(c) == call[c].op = "quote" /\ call[c].cacheOps > 0

\* call c has returned a quote
ReturnedQuote(c) == call[c].st = "done" /\ call[c].result.kind = "quote"

----------------------------------------------------------------------------
(* The result cache.                                                       *)

\* C1: the cache never holds more than MAX_CACHE_SIZE entries, whatever the
\* keys, the clock and the interleaving of the stores of concurrent sub-fetches.
C1_CacheBounded == Len(cache) <= MAX_CACHE_SIZE

\* the cache is full after a lookup stored two entries into a cache that was
\* full of another ticker's entries
C1_Witness ==
    /\ Len(cache) = MAX_CACHE_SIZE
    /\ KeyB(3) \in Keys(cache)
    /\ \E f, g \in FacetIds : f # g /\ req[1][f].st = "ok" /\ req[1][g].st = "ok"

\* C2: a lookup is served the stored payload only from an entry whose expiry
\* is after now; an entry whose expiry is now or earlier is treated as absent
\* and is gone from the cache after the lookup; a key never stored is absent.
C2_GetCachedLazyExpiry ==
    [][\A c \in Calls, f \in FacetIds :
          Looks(c, f) =>
            LET r == req'[c][f]
                stored == {i \in DOMAIN cache : cache[i].key = r.key}
            IN  /\ r.st = "hit" =>
                      \E i \in stored : cache[i].expiry > now /\ cache[i].data = r.data
                /\ \A i \in stored :
                      (cache[i].expiry > now /\ TruthyData(cache[i].data))
                          => (r.st = "hit" /\ r.data = cache[i].data /\ r.key \in Keys(cache'))
                /\ (\E i \in stored : cache[i].expiry <= now) =>
                      (r.st # "hit" /\ r.key \notin Keys(cache'))
                /\ stored = {} => r.st # "hit"]_vars

\* a lookup of A has just found the details of A expired at this very instant
\* and removed them: only the older entry of B is left
C2_Witness ==
    /\ now = CACHE_TTL
    /\ req[1][2].st = "headers" /\ req[1][2].start = now /\ req[1][2].key = KeyA(2)
    /\ Keys(cache) = {KeyB(1)}

\* C3: when setCache runs at capacity and some stored entry has expired, no
\* entry whose expiry is still in the future is removed.
C3_OnlyExpiredEvicted ==
    [][\A c \in Calls, f \in FacetIds :
          (Stores(c, f) /\ Len(cache) >= MAX_CACHE_SIZE
             /\ \E i \in DOMAIN cache : cache[i].expiry < now)
          => \A i \in DOMAIN cache :
                (cache[i].expiry > now /\ cache[i].key # req[c][f].key)
                    => cache[i].key \in Keys(cache')]_vars

\* C4: right after setCache(k, v), getCached(k) at any instant before the
\* TTL has elapsed returns v and keeps the entry, whatever the cache held.
C4_PutThenGet ==
    [][\A c \in Calls, f \in FacetIds :
          Stores(c, f) =>
            \A t \in now..(now + CACHE_TTL - 1) :
                /\ getCachedData(cache', req[c][f].key, t) = req'[c][f].data
                /\ getCachedCache(cache', req[c][f].key, t) = cache']_vars

\* a payload has just been stored into a cache that was full: it is the
\* newest entry of a cache that is full again
C4_Witness ==
    \E f \in FacetIds :
        /\ req[1][f].st = "ok"
        /\ Len(cache) = MAX_CACHE_SIZE
        /\ KeyB(2) \in Keys(cache)
        /\ cache[Len(cache)] = Entry(req[1][f].key, req[1][f].data, now + CACHE_TTL)

----------------------------------------------------------------------------
(* The fetcher.                                                            *)

\* C5: a request that has not completed when the request timeout fires is
\* aborted: no request is still in flight after its timeout, whether it
\* waits for the headers or for the body.
C5_SettlesByTimeout ==
    \A c \in Calls, f \in FacetIds :
        InFlight(req[c][f]) => now <= req[c][f].start + API_TIMEOUT

OtherFailures == {"http_error", "timeout", "transport", "parse"}

\* C6: what the fetcher returns for an HTTP 429 differs from what it returns
\* for another non-2xx status, a timeout or a transport error.
C6_RateLimitedDistinct ==
    \A c1, c2 \in Calls, f1, f2 \in FacetIds :
        (req[c1][f1].cause = "rate_limited" /\ req[c2][f2].cause \in OtherFailures)
            => fetchResult(req[c1][f1]) # fetchResult(req[c2][f2])

----------------------------------------------------------------------------
(* The quote assembler.                                                    *)

\* C7: a lookup issues at most one upstream request per facet, three in all,
\* never a second one after a failure, and none for a facet served from the cache.
C7_AtMostThreeRequests ==
    \A c \in Calls :
        call[c].op = "quote" =>
            /\ Sent(c) <= 3
            /\ \A f \in FacetIds :
                  /\ req[c][f].sent <= 1
                  /\ req[c][f].st = "hit" => req[c][f].sent = 0
                  /\ req[c][f].st = "fail" => req[c][f].sent = 1

\* a lookup has returned after one facet came from the cache, one failed and
\* one was fetched
C7_Witness ==
    /\ call[1].st = "done" /\ call[1].op = "quote"
    /\ \E f, g, h \in FacetIds :
          req[1][f].st = "hit" /\ req[1][g].st = "fail" /\ req[1][h].st = "ok"
    /\ Sent(1) = 2

\* C8: a ticker that sanitizes to the empty string makes getAssetQuote return
\* absent in the step of the call: no request is issued, the cache is neither
\* read nor written.
C8_InvalidTickerRejectedAtOnce ==
    [][\A c \in Calls :
          (call[c].st = "idle" /\ call'[c].op = "quote" /\ call'[c].arg = <<>>)
          => /\ call'[c].st = "done"
             /\ call'[c].result = Null
             /\ call'[c].cacheOps = 0
             /\ req' = req
             /\ cache' = cache]_vars

\* an invalid ticker has been rejected while the API key is set and the cache
\* holds entries
C8_Witness ==
    /\ call[1].st = "done" /\ call[1].op = "quote" /\ call[1].arg = <<>>
    /\ apiKey
    /\ cache # <<>>

\* the facets of call c that yielded data
Yielded(c, f) == req[c][f].st \in {"hit", "ok"}

\* C9: the three sub-fetches of a lookup are all dispatched before any is
\* awaited; a failed sub-fetch neither cancels the others nor ends the lookup,
\* which returns only when all three have settled; and the quote is built from
\* the facets that succeeded when they resolve a price.
C9_IndependentSubFetches ==
    \A c \in Calls :
        Dispatched(c) =>
            /\ \A f \in FacetIds : req[c][f].st # "none"
            /\ call[c].st = "done" => \A f \in FacetIds : Settled(req[c][f])
            /\ call[c].st = "done" =>
                 LET snap == req[c][1].data
                     hasSnap == Yielded(c, 1) /\ snap.kind = "snapshot" /\ snap.hasTicker
                     dayOk == hasSnap /\ Truthy(snap.dayC)
                     prevOk == hasSnap /\ ~Truthy(snap.dayC) /\ Truthy(snap.prevC)
                     closes == IF Yielded(c, 3) /\ req[c][3].data.kind = "bars"
                               THEN req[c][3].data.results ELSE <<>>
                     barOk == ~dayOk /\ ~prevOk /\ closes # <<>>
                                /\ closes[Len(closes)] # Num(0)
                     det == req[c][2].data
                     q == call[c].result
                 IN  /\ dayOk => (q.kind = "quote" /\ q.price = snap.dayC)
                     /\ prevOk => (q.kind = "quote" /\ q.price = snap.prevC)
                     /\ barOk => (q.kind = "quote" /\ q.price = closes[Len(closes)])
                     /\ q.kind = "quote" =>
                           /\ q.historicalPrices = closes
                           /\ (Yielded(c, 2) /\ det.kind = "details" /\ det.hasResults)
                                 => q.name = det.name

\* a lookup has returned a quote although two of its sub-fetches failed
C9_Witness ==
    /\ ReturnedQuote(1)
    /\ Cardinality({f \in FacetIds : req[1][f].st = "fail"}) = 2
    /\ req[1][3].st = "ok"

\* C10: the price of every quote getAssetQuote returns is a number greater
\* than zero.
C10_PricePositiveFinite ==
    \A c \in Calls :
        ReturnedQuote(c) =>
            (call[c].result.price.t = "number" /\ call[c].result.price.n > 0)

\* sub-fetch f of call c yielded nothing: it failed, or its body was null or
\* lacked the member the facet is read from
Nothing(c, f) ==
    LET d == req[c][f].data
    IN  \/ ~Yielded(c, f)
        \/ d.kind = "null"
        \/ f = 1 /\ d.kind = "snapshot" /\ ~d.hasTicker
        \/ f = 2 /\ d.kind = "details" /\ ~d.hasResults
        \/ f = 3 /\ d.kind = "bars" /\ d.results = <<>>

\* C11: when the snapshot, details and bars sub-fetches of a lookup all yield
\* nothing, getAssetQuote returns absent, and no exception leaves it.
C11_NothingFoundIsAbsent ==
    \A c \in Calls :
        (call[c].st = "done" /\ Dispatched(c) /\ \A f \in FacetIds : Nothing(c, f))
            => call[c].result = Null

\* a lookup has returned after its snapshot request failed, its details body
\* had no results and its bars body was an empty list
C11_Witness ==
    /\ call[1].st = "done" /\ Dispatched(1)
    /\ req[1][1].st = "fail"
    /\ req[1][2].st = "ok" /\ req[1][2].data = DetailsNoResults
    /\ req[1][3].st = "ok" /\ req[1][3].data = Bars(<<>>)
    /\ call[1].result = Null

----------------------------------------------------------------------------
(* The batch and the facade.                                               *)

\* the lookups of the batch that returned a quote, by their place in the input
QuoteLookups == {i \in DOMAIN batch.tickers : call[i].result.kind = "quote"}

\* C12: getMultipleAssetQuotes returns a list that holds exactly the quotes of
\* the input tickers whose own lookup returned a quote, in input order; the
\* tickers whose lookup returned nothing are left out, no failure of a lookup
\* makes it throw, and the list is never longer than the input.
C12_BatchKeepsQuotesInOrder ==
    batch.st = "done" =>
        /\ batch.result.kind = "list"
        /\ Len(batch.result.items) = Cardinality(QuoteLookups)
        /\ Len(batch.result.items) <= Len(batch.tickers)
        /\ \A i \in QuoteLookups :
              batch.result.items[Cardinality({j \in QuoteLookups : j <= i})] = call[i].result

\* a batch of two lookups has returned one quote: the first lookup found
\* nothing, the second one a price
C12_Witness ==
    /\ batch.st = "done" /\ Len(batch.tickers) = 2
    /\ Dispatched(1) /\ call[1].result = Null
    /\ Dispatched(2) /\ call[2].result.kind = "quote"
    /\ batch.result.items = <<call[2].result>>

\* a batch has returned the quotes of both of its lookups, which differ
C12_WitnessBoth ==
    /\ batch.st = "done" /\ Len(batch.result.items) = 2
    /\ call[1].result.price # call[2].result.price

\* the sub-fetch of search call c failed
SearchFailed(c) == call[c].op = "search" /\ call[c].cacheOps > 0 /\ req[c][1].st = "fail"

\* C13: whatever the input and whatever the upstream does (timeout, 429,
\* non-2xx, transport error, unparsable body, missing API key), no exception
\* leaves the facade: getAssetQuote returns a quote or absent,
\* getMultipleAssetQuotes a list, searchAssets a list, empty when its fetch failed.
C13_FacadeTotal ==
    /\ \A c \in Calls :
          call[c].st = "done" =>
              /\ call[c].op = "quote" => call[c].result.kind \in {"quote", "null"}
              /\ call[c].op = "search" => call[c].result.kind = "list"
              /\ (SearchFailed(c) \/ (call[c].op = "search" /\ ~apiKey))
                    => call[c].result = List(<<>>)
    /\ batch.st = "done" => batch.result.kind = "list"

\* without an API key, a batch that names a valid ticker has returned the
\* empty list
C13_Witness ==
    /\ ~apiKey
    /\ batch.st = "done"
    /\ \E i \in DOMAIN batch.tickers : call[i].arg = <<"A">>
    /\ batch.result = List(<<>>)

\* call c is a request that needs the API key: a lookup of a valid ticker or
\* a search for a non-empty query
NeedsKey(c) ==
    \/ call[c].op = "quote" /\ call[c].arg # <<>>
    \/ call[c].op = "search" /\ sanitizeQuery(call[c].arg) # <<>>

\* C14: a missing API key is a fatal error at startup: no request that needs
\* the key is ever answered by a process that has none, so the absence is
\* never seen as a lookup that finds nothing or a search that finds nothing.
C14_KeyCheckedAtStartup ==
    \A c \in Calls : (call[c].st = "done" /\ NeedsKey(c)) => apiKey

----------------------------------------------------------------------------
(* Concurrent callers.                                                     *)

\* the calls whose fetch was for key k
CallersOf(k) == {c \in Calls : req[c][1].key = k /\ req[c][1].st # "none"}

\* the requests sent upstream for key k
RequestsFor(k) == Cardinality({c \in CallersOf(k) : req[c][1].sent > 0})

Searched(c) == call[c].op = "search" /\ call[c].cacheOps > 0

\* C16: every cache key is built from sanitized input, never from the raw
\* string of the caller: a key of searchAssets holds the sanitized query, and
\* two raw queries that sanitize to the same value use the same key; a key
\* of a lookup holds the sanitized ticker.
C16_KeysFromSanitizedInput ==
    /\ \A c, d \in Calls :
          (Searched(c) /\ Searched(d)
             /\ sanitizeQuery(call[c].arg) = sanitizeQuery(call[d].arg))
              => req[c][1].key = req[d][1].key
    /\ \A i \in DOMAIN cache :
          /\ cache[i].key[1] = "search" => sanitizeQuery(cache[i].key[2]) = cache[i].key[2]
          /\ cache[i].key[1] # "search" => sanitizeTicker(cache[i].key[2]) = cache[i].key[2]

\* C17: searchAssets returns at most 10 results, also when the upstream
\* answers with a longer list.
C17_AtMostTenResults ==
    \A c \in Calls :
        (call[c].st = "done" /\ call[c].op = "search")
            => Len(call[c].result.items) <= SearchLimit

----------------------------------------------------------------------------
(* The price and the signals.                                              *)

\* a close that is present and is not zero
Usable(v) == v # Undef /\ v # Num(0)

\* C18: the price of a returned quote is the snapshot's intraday close when
\* that is usable; else the snapshot's previous-day close when that is usable;
\* else the close of the last historical bar.  A later source is taken only
\* when every earlier one is missing or zero.
C18_PriceResolutionOrder ==
    \A c \in Calls :
        (ReturnedQuote(c) /\ Dispatched(c)) =>
            LET snap == req[c][1].data
                hasSnap == Yielded(c, 1) /\ snap.kind = "snapshot" /\ snap.hasTicker
                dayOk == hasSnap /\ Usable(snap.dayC)
                prevOk == hasSnap /\ Usable(snap.prevC)
                closes == IF Yielded(c, 3) /\ req[c][3].data.kind = "bars"
                          THEN req[c][3].data.results ELSE <<>>
                price == call[c].result.price
            IN  /\ dayOk => price = snap.dayC
                /\ (~dayOk /\ prevOk) => price = snap.prevC
                /\ (~dayOk /\ ~prevOk) => (closes # <<>> /\ price = closes[Len(closes)])

\* a quote was priced from the previous-day close: the intraday close was
\* zero, and the bars, which have another last close, were not consulted
C18_Witness ==
    /\ ReturnedQuote(1)
    /\ req[1][1].st = "ok" /\ req[1][1].data = Snap(Num(0), Num(-5))
    /\ req[1][3].st = "ok" /\ req[1][3].data = GoodBars
    /\ call[1].result.price = Num(-5)

\* the characters a sanitized ticker may hold
SanitizedChars == Range(UpperLetters) \cup Digits \cup {".", "-", ":", "^"}

\* C19: sanitizeTicker is idempotent, and its result has at most 20
\* characters, all of them uppercase letters, digits or one of . - : ^
C19_SanitizeTickerIdempotent ==
    \A c \in Calls :
        (call[c].st = "done" /\ call[c].op = "sanitizeTicker") =>
            LET out == call[c].result.s
            IN  /\ sanitizeTicker(out) = out
                /\ Len(out) <= TickerMaxLen
                /\ Range(out) \subseteq SanitizedChars

\* sanitizeTicker has been applied to its own result, which was a ticker cut
\* to 20 characters, and returned it unchanged
C19_Witness ==
    /\ call[1].st = "done" /\ call[1].op = "sanitizeTicker"
    /\ call[1].arg = call[1].result.s
    /\ Len(call[1].arg) = TickerMaxLen
    /\ "A" \in Range(call[1].arg) /\ "-" \in Range(call[1].arg)

\* C20: the category of a signal is a function of its final score alone.
\* Short-term: strong_buy for score >= 40, buy for 15 <= score < 40,
\* strong_sell for score <= -40, sell for -40 < score <= -15, hold otherwise.
\* Long-term: strong_buy for score >= 40, buy for 15 <= score < 40,
\* strong_sell for score <= -30, sell for -30 < score <= -10, hold otherwise.
\* This holds for every score that present and absent indicators add up to.
C20_CategoryFromScore ==
    \A c \in Calls :
        call[c].st = "done" =>
            LET score == call[c].result.score
                signal == call[c].result.signal
            IN  /\ call[c].op = "shortTerm" =>
                      /\ signal = "strong_buy" <=> score >= 40
                      /\ signal = "buy" <=> (15 <= score /\ score < 40)
                      /\ signal = "strong_sell" <=> score <= 0 - 40
                      /\ signal = "sell" <=> (0 - 40 < score /\ score <= 0 - 15)
                      /\ signal = "hold" <=> (0 - 15 < score /\ score < 15)
                /\ call[c].op = "longTerm" =>
                      /\ signal = "strong_buy" <=> score >= 40
                      /\ signal = "buy" <=> (15 <= score /\ score < 40)
                      /\ signal = "strong_sell" <=> score <= 0 - 30
                      /\ signal = "sell" <=> (0 - 30 < score /\ score <= 0 - 10)
                      /\ signal = "hold" <=> (0 - 10 < score /\ score < 15)

\* the short-term scorer has returned strong_buy for a score of exactly 40,
\* added up from two indicators while the SMA20 was absent
C20_Witness ==
    /\ call[1].st = "done" /\ call[1].op = "shortTerm"
    /\ call[1].arg.sma20 = NullNum
    /\ call[1].result.signal = "strong_buy" /\ call[1].result.score = 40

----------------------------------------------------------------------------
(* The indicators.                                                         *)

\* the closes of a series of bars
ClosesOf(bars) == [i \in DOMAIN bars |-> bars[i].c]

\* the sum of the elements from..to of a sequence of numbers
RECURSIVE SumRange(_, _, _)
SumRange(s, from, to) == IF from > to THEN 0 ELSE s[to] + SumRange(s, from, to - 1)

\* C21: calculateSMA(bars, period) is absent when there are fewer than period
\* bars; otherwise it is the sum of the closes of the last period bars divided
\* by period, so the bars before them have no influence on it.
C21_SmaIsMeanOfLastPeriod ==
    \A c \in Calls :
        (call[c].st = "done" /\ call[c].op = "sma") =>
            LET closes == ClosesOf(call[c].arg.bars)
                period == call[c].arg.period
                n == Len(closes)
                out == call[c].result
            IN  /\ n < period => out = NullNum
                /\ n >= period =>
                      /\ out.t = "number"
                      /\ out.num = SumRange(closes, n - period + 1, n)
                      /\ out.den = period
                      /\ out = calculateSMA(SubSeq(call[c].arg.bars, n - period + 1, n), period)

\* calculateSMA has returned 20 for the closes 10, 20, 30 and the period 3
C21_Witness ==
    /\ call[1].st = "done" /\ call[1].op = "sma"
    /\ ClosesOf(call[1].arg.bars) = <<10, 20, 30>> /\ call[1].arg.period = 3
    /\ call[1].result.num = 20 * call[1].result.den

\* the numbers of s rise strictly from each to the next
StrictlyIncreasing(s) == \A i \in 1..(Len(s) - 1) : s[i] < s[i + 1]

\* C22: calculateRSI is absent for fewer than period + 1 bars; when it is
\* defined it lies between 0 and 100; and it is exactly 100 when the last
\* 15 closes rise strictly.
C22_RsiInRange ==
    \A c \in Calls :
        (call[c].st = "done" /\ call[c].op = "rsi") =>
            LET closes == ClosesOf(call[c].arg.bars)
                n == Len(closes)
                out == call[c].result
            IN  /\ n < RsiPeriod + 1 <=> out = NullNum
                /\ out # NullNum =>
                      /\ out.den > 0
                      /\ 0 <= out.num /\ out.num <= 100 * out.den
                      /\ StrictlyIncreasing(SubSeq(closes, n - RsiPeriod, n))
                            => out.num = 100 * out.den

\* calculateRSI has returned 100 for a series that fell and then rose over
\* its last 15 closes
C22_Witness ==
    /\ call[1].st = "done" /\ call[1].op = "rsi"
    /\ LET closes == ClosesOf(call[1].arg.bars)
       IN  /\ Len(closes) > RsiPeriod + 1
           /\ closes[1] > closes[2]
           /\ StrictlyIncreasing(SubSeq(closes, Len(closes) - RsiPeriod, Len(closes)))
    /\ call[1].result.num = 100 * call[1].result.den

\* calculateRSI has returned a value strictly between 0 and 100
C22_WitnessMixed ==
    /\ call[1].st = "done" /\ call[1].op = "rsi"
    /\ call[1].result # NullNum
    /\ 0 < call[1].result.num /\ call[1].result.num < 100 * call[1].result.den

----------------------------------------------------------------------------
(* What the cache holds.                                                   *)

\* sub-fetch f of call c ends in a failure in this step
Fails(c, f) == InFlight(req[c][f]) /\ req'[c][f].st = "fail"

\* C23: a fetch that ends in a 429, another non-2xx status, a timeout, a
\* transport error or an unparsable body writes nothing to the cache; an
\* entry appears or changes only in the step in which the body of a
\* successful response for its key has been read.
C23_OnlySuccessIsCached ==
    [][/\ (\E c \in Calls, f \in FacetIds : Fails(c, f)) => cache' = cache
       /\ \A i \in DOMAIN cache' :
             (\A j \in DOMAIN cache : cache[j] # cache'[i])
                 => \E c \in Calls, f \in FacetIds :
                       /\ Stores(c, f)
                       /\ cache'[i].key = req[c][f].key
                       /\ cache'[i].data = req'[c][f].data]_vars

\* a lookup has ended with its three sub-fetches failed, and the cache is
\* as empty as it was
C23_Witness ==
    /\ call[1].st = "done" /\ Dispatched(1)
    /\ \A f \in FacetIds : req[1][f].st = "fail"
    /\ cache = <<>>
    /\ now >= API_TIMEOUT

\* C24: once a fetch for a key has stored its payload, a later fetch for the
\* key that starts while the entry is in the cache and its TTL has not
\* elapsed returns the stored payload and sends no upstream request.
C24_FreshEntryShieldsUpstream ==
    [][\A c \in Calls, f \in FacetIds :
          Looks(c, f) =>
            \A i \in DOMAIN cache :
                (cache[i].key = req'[c][f].key /\ cache[i].expiry > now)
                    => /\ req'[c][f].st = "hit"
                       /\ req'[c][f].sent = 0
                       /\ req'[c][f].data = cache[i].data]_vars

----------------------------------------------------------------------------
(* The reasons of the signals.                                             *)

Rule(rule, w, reason) == [rule |-> rule, w |-> w, reason |-> reason]

\* the rules of the short-term scorer: strategy, weight, reason
ShortRules ==
    {Rule(1, 25, "RSI oversold (<30)"), Rule(1, 15, "RSI approaching oversold"),
     Rule(1, 0 - 25, "RSI overbought (>70)"), Rule(1, 0 - 10, "RSI approaching overbought"),
     Rule(2, 0 - 15, "Price >5% above SMA20"),
     Rule(2, 20, "Price >5% below SMA20 (potential bounce)"),
     Rule(2, 5, "Price above SMA20"),
     Rule(3, 15, "5-day dip (potential rebound)"),
     Rule(3, 0 - 10, "5-day rally (potential pullback)"),
     Rule(4, 15, "High volume buying"),
     Rule(5, 15, "Near 52-week support"), Rule(5, 0 - 10, "Near 52-week high (resistance)")}

\* the rules of the long-term scorer
LongRules ==
    {Rule(1, 25, "Golden cross (SMA50 > SMA200)"), Rule(1, 0 - 20, "Death cross (SMA50 < SMA200)"),
     Rule(2, 20, "Price in uptrend above SMA200"),
     Rule(2, 15, "Price well below SMA200 (value opportunity)"),
     Rule(2, 0 - 15, "Price extended above SMA200"),
     Rule(3, 10, "Near 52-week highs (momentum)"), Rule(3, 15, "Significant discount from highs"),
     Rule(3, 10, "Moderate pullback (entry opportunity)"),
     Rule(4, 15, "Strong 1-year performance"), Rule(4, 0 - 10, "Weak 1-year performance"),
     Rule(4, 0 - 5, "Extended gains (caution)"),
     Rule(5, 10, "Large cap (stability)"), Rule(5, 5, "Mid cap")}

RuleOf(rules, reason) == CHOOSE r \in rules : r.reason = reason

RECURSIVE WeightSum(_, _)
WeightSum(rules, reasons) ==
    IF reasons = <<>> THEN 0
    ELSE RuleOf(rules, Head(reasons)).w + WeightSum(rules, Tail(reasons))

\* the strategies whose reasons appear in a result
Strategies(rules, out) == {RuleOf(rules, out.reasons[i]).rule : i \in DOMAIN out.reasons}

\* the score is the sum of the weights of the reasons, which are reasons of
\* the scorer in rule order, at most one per strategy
ScoreMatchesReasons(rules, out) ==
    /\ \A i \in DOMAIN out.reasons : \E r \in rules : r.reason = out.reasons[i]
    /\ \A i, j \in DOMAIN out.reasons :
          i < j => RuleOf(rules, out.reasons[i]).rule < RuleOf(rules, out.reasons[j]).rule
    /\ out.score = WeightSum(rules, out.reasons)

\* C25: the score of a scorer is the sum of the fixed weights of the rules
\* that triggered, and reasons holds one string per triggered rule, in the
\* order the rules are evaluated.  An absent indicator triggers no rule: with
\* every indicator absent and fewer than 5 bars the result is score 0, hold
\* and no reasons.
C25_ScoreIsSumOfTriggeredRules ==
    \A c \in Calls :
        call[c].st = "done" =>
            LET in == call[c].arg
                out == call[c].result
            IN  /\ call[c].op = "shortTerm" =>
                      /\ ScoreMatchesReasons(ShortRules, out)
                      /\ in.rsi = NullNum => 1 \notin Strategies(ShortRules, out)
                      /\ in.sma20 = NullNum => 2 \notin Strategies(ShortRules, out)
                      /\ Len(in.bars) < 5 => 3 \notin Strategies(ShortRules, out)
                      /\ Len(in.bars) < 10 => 4 \notin Strategies(ShortRules, out)
                      /\ in.delta = NullNum => 5 \notin Strategies(ShortRules, out)
                      /\ (in.rsi # NullNum /\ in.rsi.n < 30)
                            <=> (\E i \in DOMAIN out.reasons :
                                    out.reasons[i] = "RSI oversold (<30)")
                      /\ (in.rsi = NullNum /\ in.sma20 = NullNum /\ in.delta = NullNum
                            /\ Len(in.bars) < 5)
                            => (out.score = 0 /\ out.signal = "hold" /\ out.reasons = <<>>)
                /\ call[c].op = "longTerm" =>
                      /\ ScoreMatchesReasons(LongRules, out)
                      /\ (in.sma50 = NullNum \/ in.sma200 = NullNum)
                            => 1 \notin Strategies(LongRules, out)
                      /\ in.sma200 = NullNum => 2 \notin Strategies(LongRules, out)
                      /\ in.delta = NullNum => 3 \notin Strategies(LongRules, out)
                      /\ in.oneYearChange = NullNum => 4 \notin Strategies(LongRules, out)
                      /\ in.marketCap = NullNum => 5 \notin Strategies(LongRules, out)
                      /\ (in.marketCap # NullNum /\ in.marketCap.n > 200)
                            <=> (\E i \in DOMAIN out.reasons :
                                    out.reasons[i] = "Large cap (stability)")
                      /\ (in.sma50 = NullNum /\ in.sma200 = NullNum /\ in.delta = NullNum
                            /\ in.oneYearChange = NullNum /\ in.marketCap = NullNum)
                            => (out.score = 0 /\ out.signal = "hold" /\ out.reasons = <<>>)

\* the short-term scorer has returned the score 90 with the five reasons of
\* its five strategies
C25_Witness ==
    /\ call[1].st = "done" /\ call[1].op = "shortTerm"
    /\ Len(call[1].result.reasons) = 5
    /\ call[1].result.score = 90

\* a scorer has returned score 0, hold and no reasons for absent indicators
C25_WitnessAbsent ==
    /\ call[1].st = "done" /\ call[1].op = "longTerm"
    /\ call[1].arg.sma200 = NullNum /\ call[1].arg.marketCap = NullNum
    /\ call[1].result = Signal("hold", 0, <<>>)


HasReason(out, reason) == \E i \in DOMAIN out.reasons : out.reasons[i] = reason

\* C29: the long-term scorer applies the death-cross penalty only when
\* sma50 < sma200 and the golden-cross bonus only when sma50 > sma200; when
\* the two averages are equal it applies neither.
C29_CrossOnlyWhenAveragesDiffer ==
    \A c \in Calls :
        (call[c].st = "done" /\ call[c].op = "longTerm") =>
            LET in == call[c].arg
                out == call[c].result
            IN  /\ HasReason(out, "Death cross (SMA50 < SMA200)")
                      => (in.sma50 # NullNum /\ in.sma200 # NullNum
                            /\ in.sma50.n < in.sma200.n)
                /\ HasReason(out, "Golden cross (SMA50 > SMA200)")
                      => (in.sma50 # NullNum /\ in.sma200 # NullNum
                            /\ in.sma50.n > in.sma200.n)


\* C26: for a sanitized ticker that ends with -USD the vendor symbol is X:
\* followed by the ticker with that trailing -USD replaced by USD, also when
\* -USD occurs earlier in the ticker; for every other ticker the vendor
\* symbol is the ticker unchanged.
C26_OnlySuffixRewritten ==
    \A c \in Calls :
        (call[c].st = "done" /\ call[c].op = "massiveTicker") =>
            LET T == call[c].arg
                out == call[c].result.s
            IN  IF endsWith(T, USDSuffix)
                THEN out = <<"X", ":">> \o SubSeq(T, 1, Len(T) - Len(USDSuffix))
                               \o <<"U", "S", "D">>
                ELSE out = T


\* C28: setCache(k, v) for a key k that is present in the cache replaces the
\* entry of k and leaves every other entry that has not expired as it was,
\* also when the cache is at capacity.
C28_ReplaceLeavesOthers ==
    [][\A c \in Calls, f \in FacetIds :
          (Stores(c, f) /\ req[c][f].key \in Keys(cache))
          => /\ EntryOf(cache', req[c][f].key)
                  = Entry(req[c][f].key, req'[c][f].data, now + CACHE_TTL)
             /\ \A i \in DOMAIN cache :
                   (cache[i].expiry > now /\ cache[i].key # req[c][f].key)
                       => \E j \in DOMAIN cache' : cache'[j] = cache[i]]_vars


\* C27: the watchlist never holds more than MAX_ASSETS assets, whatever add
\* and remove requests are served and however they interleave: an add that
\* is served when MAX_ASSETS assets exist is answered with 400 and stores
\* nothing.
C27_WatchlistBounded == Len(table) <= MAX_ASSETS


\* C30: once addAsset(t) has resolved, t stays in the assets the hook
\* displays until removeAsset(t) is called, however the initial load, the
\* refreshes and the other calls of the hook interleave.
C30_AddedStaysDisplayed ==
    \A t \in hook.kept : \E i \in DOMAIN hook.assets : hook.assets[i] = t

====
